---------------------------- MODULE Spec2Model ----------------------------
(***************************************************************************)
(* The organizer pipeline: Scanner -> Analyzer -> Copier.                  *)
(*                                                                         *)
(* Three goroutines are started by main and joined on one sync.WaitGroup.  *)
(* The Scanner hands MagazinePages to the Analyzer, the Analyzer hands     *)
(* Magazines to the Copier over the channel made in analyzer.New.          *)
(* Every inference call and every file operation is an input: its outcome  *)
(* is drawn from a small set.                                              *)
(***************************************************************************)
EXTENDS Integers, Sequences, FiniteSets, TLC

-----------------------------------------------------------------------------
(* Bounds of the model *)

\* Number of source folders the Scanner walks at most.
MaxSources == 2
\* The longest list of month numbers given to toNames on its own.
MaxMonths == 3
\* The most entries of the working directory of the standalone program.
MaxFolders == 2

-----------------------------------------------------------------------------
(* JSON documents: a response is its raw text with the tree a JSON parser   *)
(* finds in it.                                                             *)

JInvalid == [t |-> "invalid"]
JStr(s) == [t |-> "str", v |-> s]
JNum(n) == [t |-> "num", v |-> n]
JArr(s) == [t |-> "arr", v |-> s]
JObj(f) == [t |-> "obj", v |-> f]

Response(raw, json) == [raw |-> raw, json |-> json]

Has(j, k) == k \in DOMAIN j.v

\* An unsigned integer of the given width.
MaxUint8 == 255
MaxUint16 == 65535
IsUint(j, max) == j.t = "num" /\ j.v \in 0..max
IsUintArr(j, max) == j.t = "arr" /\ \A i \in 1..Len(j.v) : IsUint(j.v[i], max)
NumsOf(j) == [i \in 1..Len(j.v) |-> j.v[i].v]

-----------------------------------------------------------------------------
(* Entities *)

MagazinePage(file, number) == [file |-> file, number |-> number]
MagazinePages(folder, pages) == [folder |-> folder, pages |-> pages]
NoMagazinePages == MagazinePages("", <<>>)

ZeroMetadata == [title |-> "", number |-> 0, months |-> <<>>, year |-> 0]

\* entities.Magazine as built in analyzePages.
MagazineReversesPages(metadata, magazinePages) ==
    [metadata |-> metadata,
     pages |-> [i \in 1..Len(magazinePages.pages) |->
                  magazinePages.pages[Len(magazinePages.pages) + 1 - i]],
     folder |-> magazinePages.folder]
Magazine(metadata, magazinePages) ==
    [metadata |-> metadata, pages |-> magazinePages.pages, folder |-> magazinePages.folder]
NoMagazine == Magazine(ZeroMetadata, NoMagazinePages)

ZeroTableContent == [error |-> "", entries |-> <<>>]
TableContentEntry(title, pageNumbers) == [title |-> title, pageNumbers |-> pageNumbers]

ZeroGame == [title |-> "", console |-> "", score |-> 0, outOf |-> 0]

-----------------------------------------------------------------------------
(* encoding/json.Unmarshal into the three structs the Analyzer decodes.     *)
(* A syntax error or a document that is not an object leaves the target     *)
(* untouched; a field of the wrong type is skipped, the other fields are    *)
(* still stored and the error is reported at the end; an absent key leaves  *)
(* the field as it was.                                                     *)

\* Whether a JSON value can be stored in a Go field of the given type.
TypeOk(j, type) ==
    CASE type = "string"  -> j.t = "str"
      [] type = "uint8"   -> IsUint(j, MaxUint8)
      [] type = "uint16"  -> IsUint(j, MaxUint16)
      [] type = "int32"   -> j.t = "num"
      [] type = "[]uint8" -> IsUintArr(j, MaxUint8)
      [] type = "[]"      -> j.t = "arr"

\* Key k is absent, or its value fits the field.
FieldOk(j, k, type) == ~Has(j, k) \/ TypeOk(j.v[k], type)

\* The value a field holds after decoding key k into it.
Stored(j, k, type, old) ==
    IF Has(j, k) /\ TypeOk(j.v[k], type)
    THEN IF type = "[]uint8" THEN NumsOf(j.v[k]) ELSE j.v[k].v
    ELSE old

\* json.Unmarshal([]byte(response), &metadata), metadata being the zero value.
UnmarshalMetadata(j) ==
    IF j.t # "obj" THEN [err |-> TRUE, val |-> ZeroMetadata]
    ELSE [err |-> ~(/\ FieldOk(j, "title", "string")
                    /\ FieldOk(j, "number", "uint8")
                    /\ FieldOk(j, "months", "[]uint8")
                    /\ FieldOk(j, "year", "uint16")),
          val |-> [title  |-> Stored(j, "title", "string", ""),
                   number |-> Stored(j, "number", "uint8", 0),
                   months |-> Stored(j, "months", "[]uint8", <<>>),
                   year   |-> Stored(j, "year", "uint16", 0)]]

\* One element of "entries".
IsEntry(j) ==
    /\ j.t = "obj"
    /\ FieldOk(j, "title", "string")
    /\ FieldOk(j, "pageNumbers", "[]uint8")
EntryOf(j) ==
    IF j.t # "obj" THEN TableContentEntry("", <<>>)
    ELSE TableContentEntry(Stored(j, "title", "string", ""),
                           Stored(j, "pageNumbers", "[]uint8", <<>>))
IsEntryArr(j) == j.t = "arr" /\ \A i \in 1..Len(j.v) : IsEntry(j.v[i])
EntriesOf(j) == [i \in 1..Len(j.v) |-> EntryOf(j.v[i])]

\* json.Unmarshal([]byte(response), &tableContent): tableContent keeps what
\* earlier candidate pages stored in it.
UnmarshalTableContent(old, j) ==
    IF j.t # "obj" THEN [err |-> TRUE, val |-> old]
    ELSE [err |-> ~(/\ FieldOk(j, "error", "string")
                    /\ (~Has(j, "entries") \/ IsEntryArr(j.v["entries"]))),
          val |-> [error   |-> Stored(j, "error", "string", old.error),
                   entries |-> IF Has(j, "entries") /\ TypeOk(j.v["entries"], "[]")
                               THEN EntriesOf(j.v["entries"]) ELSE old.entries]]

\* json.Unmarshal([]byte(response), &gameTested), gameTested being the zero value.
UnmarshalGame(j) ==
    IF j.t # "obj" THEN [err |-> TRUE, val |-> ZeroGame]
    ELSE [err |-> ~(/\ FieldOk(j, "title", "string")
                    /\ FieldOk(j, "console", "string")
                    /\ FieldOk(j, "score", "int32")
                    /\ FieldOk(j, "outOf", "int32")),
          val |-> [title   |-> Stored(j, "title", "string", ""),
                   console |-> Stored(j, "console", "string", ""),
                   score   |-> Stored(j, "score", "int32", 0),
                   outOf   |-> Stored(j, "outOf", "int32", 0)]]

-----------------------------------------------------------------------------
(* Inputs: the source folders and what the inference backend may answer.    *)

\* File names, one character per element.
FileP1 == <<"p", "1", ".", "J", "P", "G">>
FileP2 == <<"p", "2", ".", "j", "p", "g">>
FileP3 == <<"p", "3", ".", "j", "p", "g">>
FileQ1 == <<"q", "1", ".", "p", "n", "g">>
FileR1 == <<"r", "1", ".", "j", "p", "g">>
FileR2 == <<"r", "2", ".", "j", "p", "g">>
FileR3 == <<"r", "3", ".", "j", "p", "g">>
FileR4 == <<"r", "4", ".", "j", "p", "g">>

PagesA1 == MagazinePages("A1", <<MagazinePage(FileP1, 1), MagazinePage(FileP2, 2), MagazinePage(FileP3, 3)>>)
PagesB2 == MagazinePages("B2", <<MagazinePage(FileQ1, 1)>>)
PagesC3 == MagazinePages("C3", <<>>)
\* A longer page set: a cover and three candidate pages for the table of content.
PagesD4 ==
    MagazinePages("D4", <<MagazinePage(FileR1, 1), MagazinePage(FileR2, 2),
                          MagazinePage(FileR3, 3), MagazinePage(FileR4, 4)>>)
PageSetInputs == {PagesA1, PagesB2, PagesC3}

\* Cover analysis.
RespEmpty == Response("", JInvalid)
RespUnknown == Response("Unknown", JInvalid)
RespTilt ==
    Response("{\"title\":\"Tilt\",\"months\":[6],\"year\":1991,\"number\":42}",
             JObj([title |-> JStr("Tilt"), months |-> JArr(<<JNum(6)>>),
                   year |-> JNum(1991), number |-> JNum(42)]))
RespBadNumber ==
    Response("{\"title\":\"Tilt\",\"months\":[6],\"year\":1991,\"number\":\"42\"}",
             JObj([title |-> JStr("Tilt"), months |-> JArr(<<JNum(6)>>),
                   year |-> JNum(1991), number |-> JStr("42")]))
CoverResponses == {RespEmpty, RespUnknown, RespTilt, RespBadNumber}

\* Table of content.
RespNoSummary ==
    Response("{\"error\":\"no summary found\",\"entries\":[]}",
             JObj([error |-> JStr("no summary found"), entries |-> JArr(<<>>)]))
RespTests(raw, n) ==
    Response(raw,
             JObj([error |-> JStr(""),
                   entries |-> JArr(<<JObj([title |-> JStr("Tests"),
                                            pageNumbers |-> JArr(<<JNum(n)>>)])>>)]))
RespNotJson == Response("Sorry, I cannot read this page.", JInvalid)
\* Page 3 is a page of PagesA1; no page set holds a page 9.
RespTestsPage3 == RespTests("{\"error\":\"\",\"entries\":[{\"title\":\"Tests\",\"pageNumbers\":[3]}]}", 3)
RespTestsPage9 == RespTests("{\"error\":\"\",\"entries\":[{\"title\":\"Tests\",\"pageNumbers\":[9]}]}", 9)
\* An answer that reports an error and lists an entry all the same.
RespUnsureTests ==
    Response("{\"error\":\"unsure\",\"entries\":[{\"title\":\"Tests\",\"pageNumbers\":[3]}]}",
             JObj([error |-> JStr("unsure"),
                   entries |-> JArr(<<JObj([title |-> JStr("Tests"),
                                            pageNumbers |-> JArr(<<JNum(3)>>)])>>)]))
\* An answer that lists an entry and has no "error" key.
RespTestsNoError ==
    Response("{\"entries\":[{\"title\":\"Tests\",\"pageNumbers\":[3]}]}",
             JObj([entries |-> JArr(<<JObj([title |-> JStr("Tests"),
                                            pageNumbers |-> JArr(<<JNum(3)>>)])>>)]))
\* An answer whose "error" is not a string: decoding reports the type error
\* and stores the entries all the same. No page set holds a page 9.
RespBadErrorPage9 ==
    Response("{\"error\":5,\"entries\":[{\"title\":\"Tests\",\"pageNumbers\":[9]}]}",
             JObj([error |-> JNum(5),
                   entries |-> JArr(<<JObj([title |-> JStr("Tests"),
                                            pageNumbers |-> JArr(<<JNum(9)>>)])>>)]))
\* Two entries, the first with two page numbers: pages 2 and 3, then page 3.
RespTwoEntries ==
    Response("{\"error\":\"\",\"entries\":[{\"title\":\"Tests\",\"pageNumbers\":[2,3]},{\"title\":\"Selection\",\"pageNumbers\":[3]}]}",
             JObj([error |-> JStr(""),
                   entries |-> JArr(<<JObj([title |-> JStr("Tests"),
                                            pageNumbers |-> JArr(<<JNum(2), JNum(3)>>)]),
                                      JObj([title |-> JStr("Selection"),
                                            pageNumbers |-> JArr(<<JNum(3)>>)])>>)]))
TableResponses ==
    {RespEmpty, RespNotJson, RespNoSummary, RespTestsPage3, RespTestsPage9, RespUnsureTests,
     RespTestsNoError, RespBadErrorPage9}

\* Game tested.
RespGame ==
    Response("{\"title\":\"Sonic\",\"console\":\"Mega Drive\",\"score\":18,\"outOf\":20}",
             JObj([title |-> JStr("Sonic"), console |-> JStr("Mega Drive"),
                   score |-> JNum(18), outOf |-> JNum(20)]))
\* A score that is not a number: decoding reports the type error.
RespGameBadScore ==
    Response("{\"title\":\"Sonic\",\"console\":\"Mega Drive\",\"score\":\"18/20\",\"outOf\":20}",
             JObj([title |-> JStr("Sonic"), console |-> JStr("Mega Drive"),
                   score |-> JStr("18/20"), outOf |-> JNum(20)]))
GameResponses == {RespEmpty, RespNotJson, RespGameBadScore, RespGame}

\* What the file system and the inference client answer to one call:
\* the file opens or not, the request fails or returns a response.
CallInput(opened, failed, response) == [opened |-> opened, failed |-> failed, response |-> response]
NoCall == CallInput(FALSE, FALSE, Response("", JInvalid))
CallInputs(responses) ==
    {NoCall, CallInput(TRUE, TRUE, Response("", JInvalid))}
        \cup {CallInput(TRUE, FALSE, r) : r \in responses}
\* client.Responses.New(aiProxy.context, ...): under a cancelled context the
\* request returns an error.
CallInputsUnder(isCancelled, responses) ==
    IF isCancelled
    THEN {NoCall, CallInput(TRUE, TRUE, Response("", JInvalid))}
    ELSE CallInputs(responses)

-----------------------------------------------------------------------------
(* State *)

VARIABLES
    mainPc,        \* where main is: "start", "scanned", "analyzing", "waiting", "exited"
    waitGroup,     \* the sync.WaitGroup counter
    crashed,       \* an unrecovered panic ended the process
    cancelled,     \* the shared context.Context is cancelled
    receivedAtCancel, \* how many page sets the Analyzer had received when it was cancelled
    scanPc,        \* Scanner worker: "idle", "run", "done"
    scanned,       \* source folders the Scanner has walked
    scanAudit,     \* the events the Scanner logged for the last source folder
    pagesChannel,  \* Scanner -> Analyzer: the page sets queued
    pagesClosed,   \* Scanner -> Analyzer channel closed
    aPc,           \* Analyzer worker: "idle", "started", "recv", "cover", "send",
                   \* "tocBegin", "toc", "entries", "closing", "done", "panicked"
    magazinePages, \* the page set the Analyzer has in hand
    received,      \* every page set the Analyzer received, in order
    coverInput,    \* what the cover file and the inference client answered for the page set in hand
    pending,       \* the Magazine the Analyzer is sending
    emitted,       \* per send statement executed: [set, magazine]
    pageIdx,       \* analyzeTableOfContent: index of the candidate page
    tableContent,  \* analyzeTableOfContent: the decoded table of content
    numIdx,        \* analyzeTableOfContent: index in the page numbers of the entries
    gamesTested,   \* analyzeTableOfContent: the games collected
    requests,      \* the SendRequestWithImage calls made for the page set in hand, with their answers
    audit,         \* the events the Analyzer logged since it took the page set in hand
    magClosed,     \* Analyzer -> Copier channel closed
    closes,        \* how many times close(magazinesChannel) ran
    cPc,           \* Copier worker: "idle", "recv", "dirs", "copy", "done"
    magazine,      \* the Magazine the Copier has in hand
    delivered,     \* every Magazine the Copier received, in order
    pagePos,       \* renameFiles: index of the page being copied
    copied,        \* the pages of the Magazine in hand copied so far, in order
    cExit,         \* how the Copier's monitor returned: "", "closed", "error"
    dirs,          \* directories under the working directory
    files,         \* destination files: the set of [path, content]
    toNamesPc,     \* toNames checked on its own: "idle", "call", "done"
    month,         \* renameFiles: magazine.Metadata.Month, the month numbers given to toNames
    knownMonths,   \* renameFiles: the names toNames returns
    publicationMonths, \* renameFiles: strings.Join(knownMonths, " - ")
    orderPc,       \* the standalone program: "idle", "loop", "publish", "exited"
    folders,       \* standalone: the entries of the working directory
    folderIdx,     \* standalone: index of the folder of the loop
    orderedPages,  \* standalone: the decoded answer on the order of the files
    accepted,      \* standalone: per folder whose ordering was taken: [files, pages]
    failures,      \* standalone: how many failures were reported
    exitCode       \* standalone: -1 while it runs, then the exit status

mainVars == <<mainPc, waitGroup, crashed>>
scannerVars == <<scanPc, scanned, scanAudit, pagesChannel, pagesClosed>>
analyzerVars == <<aPc, magazinePages, received, coverInput, pending, emitted,
                  pageIdx, tableContent, numIdx, gamesTested, requests, audit,
                  magClosed, closes>>
copierVars == <<cPc, magazine, delivered, pagePos, copied, cExit, dirs, files>>
contextVars == <<cancelled, receivedAtCancel>>
pipelineVars == <<contextVars, mainVars, scannerVars, analyzerVars, copierVars>>
toNamesVars == <<toNamesPc, month, knownMonths, publicationMonths>>
\* What does not belong to the pipeline.
orderVars == <<orderPc, folders, folderIdx, orderedPages, accepted, failures, exitCode>>
asideVars == <<toNamesVars, orderVars>>
vars == <<pipelineVars, asideVars>>

Audit(severity, text) == [severity |-> severity, text |-> text]
Log(events) == audit' = audit \o events

\* The three services are constructed, nothing runs.
PipelineInit ==
    /\ cancelled = FALSE
    /\ receivedAtCancel = 0
    /\ mainPc = "start"
    /\ waitGroup = 0
    /\ crashed = FALSE
    /\ scanPc = "idle"
    /\ scanned = 0
    /\ scanAudit = <<>>
    /\ pagesChannel = <<>>
    /\ pagesClosed = FALSE
    /\ aPc = "idle"
    /\ magazinePages = NoMagazinePages
    /\ received = <<>>
    /\ coverInput = NoCall
    /\ pending = NoMagazine
    /\ emitted = <<>>
    /\ pageIdx = 0
    /\ tableContent = ZeroTableContent
    /\ numIdx = 0
    /\ gamesTested = <<>>
    /\ requests = <<>>
    /\ audit = <<>>
    /\ magClosed = FALSE
    /\ closes = 0
    /\ cPc = "idle"
    /\ magazine = NoMagazine
    /\ delivered = <<>>
    /\ pagePos = 0
    /\ copied = <<>>
    /\ cExit = ""
    /\ dirs = {}
    /\ files = {}

\* toNames is not being called.
ToNamesIdle ==
    /\ toNamesPc = "idle"
    /\ month = <<>>
    /\ knownMonths = <<>>
    /\ publicationMonths = ""

\* The standalone program is not running.
OrderIdle ==
    /\ orderPc = "idle"
    /\ folders = <<>>
    /\ folderIdx = 0
    /\ orderedPages = <<>>
    /\ accepted = <<>>
    /\ failures = 0
    /\ exitCode = -1

Init == PipelineInit /\ ToNamesIdle /\ OrderIdle

\* The process is alive: no panic, and main has not returned.
Running == ~crashed /\ mainPc # "exited"

-----------------------------------------------------------------------------
(* main *)

\* scannerService.Scan()
MainScan ==
    /\ Running /\ mainPc = "start"
    /\ UNCHANGED <<contextVars, asideVars>>
    /\ waitGroup' = waitGroup + 1
    /\ scanPc' = "run"
    /\ mainPc' = "scanned"
    /\ UNCHANGED <<crashed, scanned, scanAudit, pagesChannel, pagesClosed, analyzerVars, copierVars>>

\* analyzerService.Run()
MainRunAnalyzer ==
    /\ Running /\ mainPc = "scanned"
    /\ UNCHANGED <<contextVars, asideVars>>
    /\ waitGroup' = waitGroup + 1
    /\ aPc' = "started"
    /\ mainPc' = "analyzing"
    /\ UNCHANGED <<crashed, scannerVars, copierVars,
                   magazinePages, received, coverInput, pending, emitted, pageIdx,
                   tableContent, numIdx, gamesTested, requests, audit, magClosed, closes>>

\* copierService.Run()
MainRunCopier ==
    /\ Running /\ mainPc = "analyzing"
    /\ UNCHANGED <<contextVars, asideVars>>
    /\ waitGroup' = waitGroup + 1
    /\ cPc' = "recv"
    /\ mainPc' = "waiting"
    /\ UNCHANGED <<crashed, scannerVars, analyzerVars,
                   magazine, delivered, pagePos, copied, cExit, dirs, files>>

\* waitGroup.Wait()
MainWait ==
    /\ Running /\ mainPc = "waiting"
    /\ UNCHANGED <<contextVars, asideVars>>
    /\ waitGroup = 0
    /\ mainPc' = "exited"
    /\ UNCHANGED <<waitGroup, crashed, scannerVars, analyzerVars, copierVars>>

-----------------------------------------------------------------------------
(* Scanner *)

\* One source folder: an ordered page set is emitted, or the source is skipped.
ScanSource ==
    /\ Running /\ scanPc = "run"
    /\ UNCHANGED <<contextVars, asideVars>>
    /\ scanned < MaxSources
    /\ scanned' = scanned + 1
    /\ \/ /\ scanAudit' = <<Audit("Error", "source skipped")>>
          /\ UNCHANGED pagesChannel
       \/ \E set \in PageSetInputs :
            /\ pagesChannel' = Append(pagesChannel, set)
            /\ scanAudit' = <<Audit("Information", "pages ordered")>>
    /\ UNCHANGED <<mainVars, scanPc, pagesClosed, analyzerVars, copierVars>>

\* Every source folder is processed: the outbound channel is closed.
ScanClose ==
    /\ Running /\ scanPc = "run"
    /\ UNCHANGED <<contextVars, asideVars>>
    /\ pagesClosed' = TRUE
    /\ scanPc' = "done"
    /\ waitGroup' = waitGroup - 1
    /\ UNCHANGED <<mainPc, crashed, scanned, scanAudit, pagesChannel, analyzerVars, copierVars>>

-----------------------------------------------------------------------------
(* Analyzer *)

\* slices.IndexFunc(pages, p.Number == pageNumber): the 0-based index of the
\* first such page, or -1.
IndexFunc(pages, pageNumber) ==
    IF \E i \in 1..Len(pages) : pages[i].number = pageNumber
    THEN (CHOOSE i \in 1..Len(pages) :
            /\ pages[i].number = pageNumber
            /\ \A k \in 1..(i - 1) : pages[k].number # pageNumber) - 1
    ELSE -1

\* The page numbers the two nested loops over tableContent.Entries visit, in order.
RECURSIVE PageNumbersOf(_)
PageNumbersOf(entries) ==
    IF entries = <<>> THEN <<>>
    ELSE Head(entries).pageNumbers \o PageNumbersOf(Tail(entries))

Request(prompt, set, file, input) ==
    [prompt |-> prompt, set |-> set, file |-> file, failed |-> input.failed, response |-> input.response]

\* The goroutine of Run starts.
AnalyzerStart ==
    /\ Running /\ aPc = "started"
    /\ UNCHANGED <<contextVars, asideVars>>
    /\ Log(<<Audit("Information", "Analyzer service started.")>>)
    /\ aPc' = "recv"
    /\ UNCHANGED <<mainVars, scannerVars, copierVars,
                   magazinePages, received, coverInput, pending, emitted, pageIdx,
                   tableContent, numIdx, gamesTested, requests, magClosed, closes>>

\* monitor: the range loop takes the next page set.
AnalyzerReceive ==
    /\ Running /\ aPc = "recv"
    /\ UNCHANGED <<contextVars, asideVars>>
    /\ pagesChannel # <<>>
    /\ magazinePages' = Head(pagesChannel)
    /\ pagesChannel' = Tail(pagesChannel)
    /\ received' = Append(received, Head(pagesChannel))
    /\ coverInput' = NoCall
    /\ requests' = <<>>
    /\ audit' = <<>>
    /\ aPc' = "cover"
    /\ UNCHANGED <<mainVars, scanPc, scanned, scanAudit, pagesClosed, copierVars,
                   pending, emitted, pageIdx, tableContent, numIdx, gamesTested,
                   magClosed, closes>>

\* analyzePages returns without sending.
CoverSkipped(events) ==
    /\ Log(events)
    /\ aPc' = "tocBegin"
    /\ UNCHANGED <<pending, emitted>>

\* analyzePages reaches the send statement.
CoverSends(events, metadata) ==
    /\ Log(events)
    /\ pending' = Magazine(metadata, magazinePages)
    /\ emitted' = Append(emitted, [set |-> Len(received), magazine |-> pending'])
    /\ aPc' = "send"

\* What analyzePages does with the answer of the inference client.
CoverResponseSendsUndecoded(events, response) ==
    LET decoded == UnmarshalMetadata(response.json) IN
    IF response.raw = "" \/ response.raw = "Unknown"
    THEN CoverSkipped(events \o <<Audit("Error", "Unable to retieve the metadata of the cover file")>>)
    ELSE CoverSends(events \o <<Audit("Information", "Analysis done")>>, decoded.val)
CoverResponse(events, response) ==
    LET decoded == UnmarshalMetadata(response.json) IN
    IF response.raw = "" \/ response.raw = "Unknown"
    THEN CoverSkipped(events \o <<Audit("Error", "Unable to retieve the metadata of the cover file")>>)
    ELSE IF decoded.err
    THEN CoverSkipped(events \o <<Audit("Error", "Unable to decode the magazine metadata of cover file"),
                                  Audit("Debug", "Received")>>)
    ELSE CoverSends(events \o <<Audit("Information", "Analysis done")>>, decoded.val)

AnalyzePagesEmptyIsError(input) ==
    LET began == <<Audit("Information", "Analyzing cover file")>>
        request == Request("cover", Len(received), magazinePages.pages[1].file, input) IN
    IF Len(magazinePages.pages) = 0
    THEN /\ CoverSkipped(<<Audit("Error", "No pages to analyze.")>>)
         /\ UNCHANGED requests
    ELSE IF ~input.opened
    THEN /\ CoverSkipped(began \o <<Audit("Error", "Cover file does not exist or is not accessible")>>)
         /\ UNCHANGED requests
    ELSE IF input.failed
    THEN /\ requests' = Append(requests, request)
         /\ CoverSkipped(began \o <<Audit("Error", "An error occurred trying to analyze the cover file")>>)
    ELSE /\ requests' = Append(requests, request)
         /\ CoverResponse(began, input.response)
\* analyzePages, up to its return or its send statement.
AnalyzePages(input) ==
    LET began == <<Audit("Information", "Analyzing cover file")>>
        request == Request("cover", Len(received), magazinePages.pages[1].file, input) IN
    IF Len(magazinePages.pages) = 0
    THEN /\ CoverSkipped(<<Audit("Information", "No pages to analyze.")>>)
         /\ UNCHANGED requests
    ELSE IF ~input.opened
    THEN /\ CoverSkipped(began \o <<Audit("Error", "Cover file does not exist or is not accessible")>>)
         /\ UNCHANGED requests
    ELSE IF input.failed
    THEN /\ requests' = Append(requests, request)
         /\ CoverSkipped(began \o <<Audit("Error", "An error occurred trying to analyze the cover file")>>)
    ELSE /\ requests' = Append(requests, request)
         /\ CoverResponse(began, input.response)

AnalyzerCover ==
    /\ Running /\ aPc = "cover"
    /\ UNCHANGED <<contextVars, asideVars>>
    /\ \E input \in CallInputsUnder(cancelled, CoverResponses) :
         /\ Len(magazinePages.pages) = 0 => input = NoCall
         /\ coverInput' = input
         /\ AnalyzePages(input)
    /\ UNCHANGED <<mainVars, scannerVars, copierVars,
                   magazinePages, received, pageIdx, tableContent, numIdx, gamesTested,
                   magClosed, closes>>

\* The send on magazinesChannel and the receive of the Copier's range loop:
\* the channel has no buffer, the two happen together.
HandoffBuffered ==
    /\ Running /\ aPc = "send"
    /\ UNCHANGED <<contextVars, asideVars>>
    /\ pending' = NoMagazine
    /\ aPc' = "tocBegin"
    /\ UNCHANGED <<mainVars, scannerVars, copierVars,
                   magazinePages, received, coverInput, emitted, pageIdx, tableContent,
                   numIdx, gamesTested, requests, audit, magClosed, closes>>
HandoffOutOfOrder ==
    /\ Running /\ aPc = "send" /\ cPc = "recv"
    /\ UNCHANGED <<contextVars, asideVars>>
    /\ magazine' = pending
    /\ delivered' = <<pending>> \o delivered
    /\ copied' = <<>>
    /\ pending' = NoMagazine
    /\ aPc' = "tocBegin"
    /\ cPc' = "dirs"
    /\ UNCHANGED <<mainVars, scannerVars,
                   magazinePages, received, coverInput, emitted, pageIdx, tableContent,
                   numIdx, gamesTested, requests, audit, magClosed, closes,
                   pagePos, cExit, dirs, files>>
Handoff ==
    /\ Running /\ aPc = "send" /\ cPc = "recv"
    /\ UNCHANGED <<contextVars, asideVars>>
    /\ magazine' = pending
    /\ delivered' = Append(delivered, pending)
    /\ copied' = <<>>
    /\ pending' = NoMagazine
    /\ aPc' = "tocBegin"
    /\ cPc' = "dirs"
    /\ UNCHANGED <<mainVars, scannerVars,
                   magazinePages, received, coverInput, emitted, pageIdx, tableContent,
                   numIdx, gamesTested, requests, audit, magClosed, closes,
                   pagePos, cExit, dirs, files>>

\* analyzeTableOfContent returns: its locals are gone.
TocReturns(events) ==
    /\ Log(events)
    /\ aPc' = "recv"
    /\ pageIdx' = 0
    /\ numIdx' = 0
    /\ tableContent' = ZeroTableContent
    /\ gamesTested' = <<>>
    /\ UNCHANGED <<waitGroup, crashed>>

\* The loop over the candidate pages ends: the loops over the entries begin.
TocEntriesBegin(events, table) ==
    /\ Log(events)
    /\ aPc' = "entries"
    /\ tableContent' = table
    /\ numIdx' = 1
    /\ UNCHANGED <<waitGroup, crashed, pageIdx, gamesTested>>

\* The loop over the candidate pages goes on to the next page, if any.
TocContinueSamePage(events, table) ==
    /\ Log(events)
    /\ tableContent' = table
    /\ UNCHANGED <<waitGroup, crashed, aPc, pageIdx, numIdx, gamesTested>>
TocContinue(events, table) ==
    IF pageIdx < Len(magazinePages.pages)
    THEN /\ Log(events)
         /\ tableContent' = table
         /\ pageIdx' = pageIdx + 1
         /\ UNCHANGED <<waitGroup, crashed, aPc, numIdx, gamesTested>>
    ELSE TocEntriesBegin(events, table)

AnalyzerTocBeginDetached ==
    /\ Running /\ aPc = "tocBegin"
    /\ UNCHANGED <<contextVars, asideVars>>
    /\ IF Len(magazinePages.pages) = 0
       THEN TocReturns(<<Audit("Information", "No pages to analyze.")>>)
       ELSE IF Len(magazinePages.pages) = 1
       THEN TocEntriesBegin(<<>>, ZeroTableContent)
       ELSE TocReturns(<<>>)
    /\ UNCHANGED <<mainPc, scannerVars, copierVars,
                   magazinePages, received, coverInput, pending, emitted, requests,
                   magClosed, closes>>
\* analyzeTableOfContent, up to the loop over magazinePages.Pages[1:].
AnalyzerTocBegin ==
    /\ Running /\ aPc = "tocBegin"
    /\ UNCHANGED <<contextVars, asideVars>>
    /\ IF Len(magazinePages.pages) = 0
       THEN TocReturns(<<Audit("Information", "No pages to analyze.")>>)
       ELSE IF Len(magazinePages.pages) = 1
       THEN TocEntriesBegin(<<>>, ZeroTableContent)
       ELSE /\ aPc' = "toc"
            /\ pageIdx' = 2
            /\ UNCHANGED <<waitGroup, crashed, audit, tableContent, numIdx, gamesTested>>
    /\ UNCHANGED <<mainPc, scannerVars, copierVars,
                   magazinePages, received, coverInput, pending, emitted, requests,
                   magClosed, closes>>

TocPageRetriesFailed(input) ==
    LET request == Request("table", Len(received), magazinePages.pages[pageIdx].file, input)
        decoded == UnmarshalTableContent(tableContent, input.response.json) IN
    IF ~input.opened
    THEN /\ TocReturns(<<Audit("Error", "File does not exist or is not accessible")>>)
         /\ UNCHANGED requests
    ELSE IF input.failed
    THEN /\ requests' = Append(requests, request)
         /\ Log(<<Audit("Error", "An error occurred trying to analyze the file")>>)
         /\ UNCHANGED <<waitGroup, crashed, aPc, pageIdx, numIdx, tableContent, gamesTested>>
    ELSE IF input.response.raw = ""
    THEN /\ requests' = Append(requests, request)
         /\ TocReturns(<<Audit("Error", "Unable to retieve the metadata of the file")>>)
    ELSE IF decoded.err
    THEN /\ requests' = Append(requests, request)
         /\ TocContinue(<<Audit("Error", "Unable to decode the table of content"),
                          Audit("Debug", "Received")>>, decoded.val)
    ELSE IF decoded.val.error # "" \/ Len(decoded.val.entries) = 0
    THEN /\ requests' = Append(requests, request)
         /\ TocContinue(<<>>, decoded.val)
    ELSE /\ requests' = Append(requests, request)
         /\ TocEntriesBegin(<<>>, decoded.val)
\* One candidate page of the table of content.
TocPage(input) ==
    LET request == Request("table", Len(received), magazinePages.pages[pageIdx].file, input)
        decoded == UnmarshalTableContent(tableContent, input.response.json) IN
    IF ~input.opened
    THEN /\ TocReturns(<<Audit("Error", "File does not exist or is not accessible")>>)
         /\ UNCHANGED requests
    ELSE IF input.failed
    THEN /\ requests' = Append(requests, request)
         /\ TocReturns(<<Audit("Error", "An error occurred trying to analyze the file")>>)
    ELSE IF input.response.raw = ""
    THEN /\ requests' = Append(requests, request)
         /\ TocReturns(<<Audit("Error", "Unable to retieve the metadata of the file")>>)
    ELSE IF decoded.err
    THEN /\ requests' = Append(requests, request)
         /\ TocContinue(<<Audit("Error", "Unable to decode the table of content"),
                          Audit("Debug", "Received")>>, decoded.val)
    ELSE IF decoded.val.error # "" \/ Len(decoded.val.entries) = 0
    THEN /\ requests' = Append(requests, request)
         /\ TocContinue(<<>>, decoded.val)
    ELSE /\ requests' = Append(requests, request)
         /\ TocEntriesBegin(<<>>, decoded.val)

AnalyzerTocPage ==
    /\ Running /\ aPc = "toc"
    /\ UNCHANGED <<contextVars, asideVars>>
    /\ \E input \in CallInputsUnder(cancelled, TableResponses) : TocPage(input)
    /\ UNCHANGED <<mainPc, scannerVars, copierVars,
                   magazinePages, received, coverInput, pending, emitted,
                   magClosed, closes>>

EntryContinueStopsOnError(events, games) ==
    IF events # <<>>
    THEN /\ Log(events)
         /\ aPc' = "recv"
         /\ pageIdx' = 0
         /\ numIdx' = 0
         /\ tableContent' = ZeroTableContent
         /\ gamesTested' = <<>>
         /\ UNCHANGED <<waitGroup, crashed>>
    ELSE /\ Log(events)
         /\ gamesTested' = games
         /\ numIdx' = numIdx + 1
         /\ UNCHANGED <<waitGroup, crashed, aPc, pageIdx, tableContent>>
\* The loops over the entries go on to the next page number, if any.
EntryContinue(events, games) ==
    /\ Log(events)
    /\ gamesTested' = games
    /\ numIdx' = numIdx + 1
    /\ UNCHANGED <<waitGroup, crashed, aPc, pageIdx, tableContent>>

\* One page number of one entry of the table of content.
EntryPage(input) ==
    LET pageNumber == PageNumbersOf(tableContent.entries)[numIdx]
        idx == IndexFunc(magazinePages.pages, pageNumber)
        request == Request("game", Len(received), magazinePages.pages[idx + 1].file, input)
        decoded == UnmarshalGame(input.response.json) IN
    IF idx < 0
    THEN \* magazinePages.Pages[idx]: index out of range, the goroutine panics;
         \* the deferred waitGroup.Done() of Run runs while it unwinds
         /\ aPc' = "panicked"
         /\ waitGroup' = waitGroup - 1
         /\ UNCHANGED <<crashed, audit, pageIdx, numIdx, tableContent, gamesTested, requests>>
    ELSE IF ~input.opened
    THEN /\ TocReturns(<<Audit("Error", "File does not exist or is not accessible")>>)
         /\ UNCHANGED requests
    ELSE IF input.failed
    THEN /\ requests' = Append(requests, request)
         /\ TocReturns(<<Audit("Error", "An error occurred trying to analyze the file")>>)
    ELSE IF input.response.raw = ""
    THEN /\ requests' = Append(requests, request)
         /\ TocReturns(<<Audit("Error", "Unable to retrieve the game tested from the file")>>)
    ELSE IF decoded.err
    THEN /\ requests' = Append(requests, request)
         /\ EntryContinue(<<Audit("Error", "Unable to decode the table of content"),
                            Audit("Debug", "Received")>>, gamesTested)
    ELSE /\ requests' = Append(requests, request)
         /\ EntryContinue(<<>>, Append(gamesTested, decoded.val))

\* The loops over tableContent.Entries: one page number, or their end.
AnalyzerEntry ==
    /\ Running /\ aPc = "entries"
    /\ UNCHANGED <<contextVars, asideVars>>
    /\ IF numIdx > Len(PageNumbersOf(tableContent.entries))
       THEN TocReturns(<<>>) /\ UNCHANGED requests
       ELSE \E input \in CallInputsUnder(cancelled, GameResponses) :
              /\ IndexFunc(magazinePages.pages, PageNumbersOf(tableContent.entries)[numIdx]) < 0
                   => input = NoCall
              /\ EntryPage(input)
    /\ UNCHANGED <<mainPc, scannerVars, copierVars,
                   magazinePages, received, coverInput, pending, emitted,
                   magClosed, closes>>

\* Nothing recovers the panic of the worker: the runtime ends the process.
AnalyzerCrash ==
    /\ Running /\ aPc = "panicked"
    /\ UNCHANGED <<contextVars, asideVars>>
    /\ crashed' = TRUE
    /\ UNCHANGED <<mainPc, waitGroup, scannerVars, analyzerVars, copierVars>>

\* monitor: the inbound channel is closed and drained; the outbound channel is closed.
AnalyzerClose ==
    /\ Running /\ aPc = "recv"
    /\ UNCHANGED <<contextVars, asideVars>>
    /\ pagesChannel = <<>> /\ pagesClosed
    /\ magClosed' = TRUE
    /\ closes' = closes + 1
    /\ Log(<<Audit("Information", "Analyzer service stopped.")>>)
    /\ aPc' = "closing"
    /\ UNCHANGED <<mainVars, scannerVars, copierVars,
                   magazinePages, received, coverInput, pending, emitted, pageIdx,
                   tableContent, numIdx, gamesTested, requests>>

\* Run: monitor returned nil; the deferred waitGroup.Done() runs.
AnalyzerDone ==
    /\ Running /\ aPc = "closing"
    /\ UNCHANGED <<contextVars, asideVars>>
    /\ waitGroup' = waitGroup - 1
    /\ aPc' = "done"
    /\ UNCHANGED <<mainPc, crashed, scannerVars, copierVars,
                   magazinePages, received, coverInput, pending, emitted, pageIdx,
                   tableContent, numIdx, gamesTested, requests, audit, magClosed, closes>>

-----------------------------------------------------------------------------
(* Copier *)

Prefix == "test-"

Months == <<"Janvier", "Février", "Mars", "Avril", "Mai", "Juin",
            "Juillet", "Août", "Septembre", "Octobre", "Novembre", "Décembre">>

RECURSIVE toNamesBelowTwelve(_)
toNamesBelowTwelve(nums) ==
    IF nums = <<>> THEN <<>>
    ELSE IF Head(nums) >= 1 /\ Head(nums) < 12
    THEN <<Months[Head(nums)]>> \o toNamesBelowTwelve(Tail(nums))
    ELSE toNamesBelowTwelve(Tail(nums))

\* toNames: the names of the month numbers in 1..12, in order.
RECURSIVE toNames(_)
toNames(nums) ==
    IF nums = <<>> THEN <<>>
    ELSE IF Head(nums) >= 1 /\ Head(nums) <= 12
    THEN <<Months[Head(nums)]>> \o toNames(Tail(nums))
    ELSE toNames(Tail(nums))

\* strings.Join(elems, sep)
RECURSIVE Join(_, _)
Join(elems, sep) ==
    IF elems = <<>> THEN ""
    ELSE IF Len(elems) = 1 THEN elems[1]
    ELSE elems[1] \o sep \o Join(Tail(elems), sep)

Digit == <<"0", "1", "2", "3", "4", "5", "6", "7", "8", "9">>

\* %d
RECURSIVE Itoa(_)
Itoa(n) == IF n < 10 THEN Digit[n + 1] ELSE Itoa(n \div 10) \o Digit[(n % 10) + 1]

\* %0<width>d
RECURSIVE Padded(_, _)
Padded(text, width) == IF Len(text) >= width THEN text ELSE Padded("0" \o text, width)

\* filepath.Ext: the suffix beginning at the final dot in the final element of the path.
RECURSIVE ExtFrom(_, _)
ExtFrom(name, i) ==
    IF i < 1 \/ name[i] = "/" THEN <<>>
    ELSE IF name[i] = "." THEN SubSeq(name, i, Len(name))
    ELSE ExtFrom(name, i - 1)
Ext(name) == ExtFrom(name, Len(name))

UpperCase == <<"A", "B", "C", "D", "E", "F", "G", "H", "I", "J", "K", "L", "M",
               "N", "O", "P", "Q", "R", "S", "T", "U", "V", "W", "X", "Y", "Z">>
LowerCase == <<"a", "b", "c", "d", "e", "f", "g", "h", "i", "j", "k", "l", "m",
               "n", "o", "p", "q", "r", "s", "t", "u", "v", "w", "x", "y", "z">>
\* strings.ToLower
ToLower(name) ==
    [i \in 1..Len(name) |->
        IF \E k \in 1..Len(UpperCase) : UpperCase[k] = name[i]
        THEN LowerCase[CHOOSE k \in 1..Len(UpperCase) : UpperCase[k] = name[i]]
        ELSE name[i]]

\* The characters of a name as one string.
RECURSIVE Text(_)
Text(name) == IF name = <<>> THEN "" ELSE Head(name) \o Text(Tail(name))

\* Paths are relative to the working directory: the sequence of their elements.
NewPublicationFolder(m) == <<Prefix \o m.metadata.title>>
NewPublicationFolderNumber(m) ==
    Append(NewPublicationFolder(m),
           "Numéro " \o Padded(Itoa(m.metadata.number), 2) \o " | "
               \o Join(toNames(m.metadata.months), " - ") \o " " \o Itoa(m.metadata.year))
PageFileNameKeepsCase(page) == Padded(Itoa(page.number), 3) \o Text(Ext(page.file))
PageFileName(page) == Padded(Itoa(page.number), 3) \o Text(ToLower(Ext(page.file)))
SrcPath(m, page) == <<m.folder, Text(page.file)>>
DstPath(m, page) == Append(NewPublicationFolderNumber(m), PageFileName(page))

File(path, content) == [path |-> path, content |-> content]
Written(path, content) == {f \in files : f.path # path} \cup {File(path, content)}

\* renameFiles returns an error: monitor returns it, the deferred waitGroup.Done() runs.
CopierFailsWithoutDone ==
    /\ cPc' = "done"
    /\ cExit' = "error"
    /\ UNCHANGED waitGroup
    /\ pagePos' = 0
CopierFails ==
    /\ cPc' = "done"
    /\ cExit' = "error"
    /\ waitGroup' = waitGroup - 1
    /\ pagePos' = 0

\* renameFiles returns nil: the range loop waits for the next Magazine.
CopierTransferred ==
    /\ cPc' = "recv"
    /\ pagePos' = 0
    /\ UNCHANGED <<cExit, waitGroup>>

CopierDirsMkdirUnchecked ==
    /\ Running /\ cPc = "dirs"
    /\ UNCHANGED <<contextVars, asideVars>>
    /\ \E made1 \in BOOLEAN, made2 \in BOOLEAN :
         LET folder == NewPublicationFolder(magazine)
             number == NewPublicationFolderNumber(magazine)
             has1 == folder \in dirs
             dirs1 == IF has1 \/ ~made1 THEN dirs ELSE dirs \cup {folder}
             has2 == number \in dirs1 IN
         IF has1 \/ ~made1
         THEN CopierFails /\ UNCHANGED dirs
         ELSE IF has2 \/ ~made2
         THEN CopierFails /\ dirs' = dirs1
         ELSE /\ dirs' = dirs1 \cup {number}
              /\ IF Len(magazine.pages) = 0
                 THEN CopierTransferred
                 ELSE /\ cPc' = "copy"
                      /\ pagePos' = 1
                      /\ UNCHANGED <<cExit, waitGroup>>
    /\ UNCHANGED <<mainPc, crashed, scannerVars, analyzerVars,
                   magazine, delivered, copied, files>>
\* renameFiles, up to the loop over magazine.Pages: the two folders.
CopierDirs ==
    /\ Running /\ cPc = "dirs"
    /\ UNCHANGED <<contextVars, asideVars>>
    /\ \E made1 \in BOOLEAN, made2 \in BOOLEAN :
         LET folder == NewPublicationFolder(magazine)
             number == NewPublicationFolderNumber(magazine)
             has1 == folder \in dirs
             dirs1 == IF has1 \/ ~made1 THEN dirs ELSE dirs \cup {folder}
             has2 == number \in dirs1 IN
         IF ~has1 /\ ~made1
         THEN CopierFails /\ UNCHANGED dirs
         ELSE IF ~has2 /\ ~made2
         THEN CopierFails /\ dirs' = dirs1
         ELSE /\ dirs' = dirs1 \cup {number}
              /\ IF Len(magazine.pages) = 0
                 THEN CopierTransferred
                 ELSE /\ cPc' = "copy"
                      /\ pagePos' = 1
                      /\ UNCHANGED <<cExit, waitGroup>>
    /\ UNCHANGED <<mainPc, crashed, scannerVars, analyzerVars,
                   magazine, delivered, copied, files>>

CopyPageRollsBack(outcome) ==
    LET page == magazine.pages[pagePos]
        src == SrcPath(magazine, page)
        dst == DstPath(magazine, page) IN
    IF outcome \in {"open fails", "create fails", "copy fails"}
    THEN /\ CopierFails
         /\ files' = {f \in files : SubSeq(f.path, 1, 2) # NewPublicationFolderNumber(magazine)}
         /\ UNCHANGED copied
    ELSE /\ files' = Written(dst, [from |-> src, whole |-> TRUE])
         /\ copied' = Append(copied, page)
         /\ IF pagePos < Len(magazine.pages)
            THEN /\ pagePos' = pagePos + 1
                 /\ UNCHANGED <<cPc, cExit, waitGroup>>
            ELSE CopierTransferred
\* One page of the loop over magazine.Pages.
CopyPage(outcome) ==
    LET page == magazine.pages[pagePos]
        src == SrcPath(magazine, page)
        dst == DstPath(magazine, page) IN
    IF outcome = "open fails"
    THEN CopierFails /\ UNCHANGED <<files, copied>>
    ELSE IF outcome = "create fails"
    THEN CopierFails /\ UNCHANGED <<files, copied>>
    ELSE IF outcome = "copy fails"
    THEN CopierFails /\ files' = Written(dst, [from |-> src, whole |-> FALSE]) /\ UNCHANGED copied
    ELSE /\ files' = Written(dst, [from |-> src, whole |-> TRUE])
         /\ copied' = Append(copied, page)
         /\ IF pagePos < Len(magazine.pages)
            THEN /\ pagePos' = pagePos + 1
                 /\ UNCHANGED <<cPc, cExit, waitGroup>>
            ELSE CopierTransferred

CopierCopyPageRenamesPage ==
    /\ Running /\ cPc = "copy"
    /\ UNCHANGED <<contextVars, asideVars>>
    /\ \E outcome \in {"open fails", "create fails", "copy fails", "copied"} : CopyPage(outcome)
    /\ magazine' = [magazine EXCEPT !.pages[pagePos].file = <<>>]
    /\ UNCHANGED <<mainPc, crashed, scannerVars, analyzerVars, delivered, dirs>>
CopierCopyPage ==
    /\ Running /\ cPc = "copy"
    /\ UNCHANGED <<contextVars, asideVars>>
    /\ \E outcome \in {"open fails", "create fails", "copy fails", "copied"} : CopyPage(outcome)
    /\ UNCHANGED <<mainPc, crashed, scannerVars, analyzerVars,
                   magazine, delivered, dirs>>

\* monitor: the inbound channel is closed; the deferred waitGroup.Done() runs.
CopierStop ==
    /\ Running /\ cPc = "recv"
    /\ UNCHANGED <<contextVars, asideVars>>
    /\ magClosed
    /\ cPc' = "done"
    /\ cExit' = "closed"
    /\ waitGroup' = waitGroup - 1
    /\ UNCHANGED <<mainPc, crashed, scannerVars, analyzerVars,
                   magazine, delivered, pagePos, copied, dirs, files>>

-----------------------------------------------------------------------------
(* The pipeline *)

Next ==
    \/ MainScan \/ MainRunAnalyzer \/ MainRunCopier \/ MainWait
    \/ ScanSource \/ ScanClose
    \/ AnalyzerStart \/ AnalyzerReceive \/ AnalyzerCover \/ Handoff
    \/ AnalyzerTocBegin \/ AnalyzerTocPage \/ AnalyzerEntry \/ AnalyzerCrash
    \/ AnalyzerClose \/ AnalyzerDone
    \/ CopierDirs \/ CopierCopyPage \/ CopierStop

Spec == Init /\ [][Next]_vars

\* The owner of the shared context cancels it.
CancelContext ==
    /\ Running /\ ~cancelled
    /\ cancelled' = TRUE
    /\ receivedAtCancel' = Len(received)
    /\ UNCHANGED <<mainVars, scannerVars, analyzerVars, copierVars, asideVars>>

\* The pipeline under a context that may be cancelled at any time.
CancelNext == Next \/ CancelContext

CancelSpec == Init /\ [][CancelNext]_vars

\* The pipeline on one longer source folder: the Scanner has queued the
\* four-page set and closed its channel before main starts the Analyzer.
LongFolderInit ==
    /\ cancelled = FALSE
    /\ receivedAtCancel = 0
    /\ mainPc = "scanned"
    /\ waitGroup = 0
    /\ crashed = FALSE
    /\ scanPc = "done"
    /\ scanned = 1
    /\ scanAudit = <<Audit("Information", "pages ordered")>>
    /\ pagesChannel = <<PagesD4>>
    /\ pagesClosed = TRUE
    /\ aPc = "idle"
    /\ magazinePages = NoMagazinePages
    /\ received = <<>>
    /\ coverInput = NoCall
    /\ pending = NoMagazine
    /\ emitted = <<>>
    /\ pageIdx = 0
    /\ tableContent = ZeroTableContent
    /\ numIdx = 0
    /\ gamesTested = <<>>
    /\ requests = <<>>
    /\ audit = <<>>
    /\ magClosed = FALSE
    /\ closes = 0
    /\ cPc = "idle"
    /\ magazine = NoMagazine
    /\ delivered = <<>>
    /\ pagePos = 0
    /\ copied = <<>>
    /\ cExit = ""
    /\ dirs = {}
    /\ files = {}
    /\ ToNamesIdle /\ OrderIdle

LongFolderNext ==
    \/ MainRunAnalyzer \/ MainRunCopier \/ MainWait
    \/ AnalyzerStart \/ AnalyzerReceive \/ AnalyzerCover \/ Handoff
    \/ AnalyzerTocBegin \/ AnalyzerTocPage \/ AnalyzerEntry \/ AnalyzerCrash
    \/ AnalyzerClose \/ AnalyzerDone
    \/ CopierDirs \/ CopierCopyPage \/ CopierStop

LongFolderSpec == LongFolderInit /\ [][LongFolderNext]_vars

\* The pipeline from the loops over the entries on: the Scanner queued the
\* three-page set and closed its channel, the cover was analysed and its
\* Magazine handed to the Copier, and page 2 answered with two entries naming
\* the pages 2 and 3, then 3.
ReviewedMagazine == Magazine(UnmarshalMetadata(RespTilt.json).val, PagesA1)
EntriesInit ==
    /\ cancelled = FALSE
    /\ receivedAtCancel = 0
    /\ mainPc = "waiting"
    /\ waitGroup = 2
    /\ crashed = FALSE
    /\ scanPc = "done"
    /\ scanned = 1
    /\ scanAudit = <<Audit("Information", "pages ordered")>>
    /\ pagesChannel = <<>>
    /\ pagesClosed = TRUE
    /\ aPc = "entries"
    /\ magazinePages = PagesA1
    /\ received = <<PagesA1>>
    /\ coverInput = CallInput(TRUE, FALSE, RespTilt)
    /\ pending = NoMagazine
    /\ emitted = <<[set |-> 1, magazine |-> ReviewedMagazine]>>
    /\ pageIdx = 2
    /\ tableContent = UnmarshalTableContent(ZeroTableContent, RespTwoEntries.json).val
    /\ numIdx = 1
    /\ gamesTested = <<>>
    /\ requests = <<Request("cover", 1, FileP1, CallInput(TRUE, FALSE, RespTilt)),
                    Request("table", 1, FileP2, CallInput(TRUE, FALSE, RespTwoEntries))>>
    /\ audit = <<Audit("Information", "Analyzing cover file"),
                 Audit("Information", "Analysis done")>>
    /\ magClosed = FALSE
    /\ closes = 0
    /\ cPc = "dirs"
    /\ magazine = ReviewedMagazine
    /\ delivered = <<ReviewedMagazine>>
    /\ pagePos = 0
    /\ copied = <<>>
    /\ cExit = ""
    /\ dirs = {}
    /\ files = {}
    /\ ToNamesIdle /\ OrderIdle

EntriesNext ==
    \/ MainWait
    \/ AnalyzerEntry \/ AnalyzerClose \/ AnalyzerDone
    \/ CopierDirs \/ CopierCopyPage \/ CopierStop

EntriesSpec == EntriesInit /\ [][EntriesNext]_vars

-----------------------------------------------------------------------------
(* toNames on its own *)

\* Month numbers are uint8: in range, just out of range, and the largest.
MonthNumbers == {0, 1, 6, 12, 13, MaxUint8}
MonthInputs == UNION {[1..n -> MonthNumbers] : n \in 0..MaxMonths}

ToNamesInit ==
    /\ PipelineInit /\ OrderIdle
    /\ toNamesPc = "call"
    /\ month \in MonthInputs
    /\ knownMonths = <<>>
    /\ publicationMonths = ""

\* renameFiles: knownMonths := toNames(...); publicationMonths := strings.Join(knownMonths, " - ")
ToNamesCall ==
    /\ toNamesPc = "call"
    /\ knownMonths' = toNames(month)
    /\ publicationMonths' = Join(knownMonths', " - ")
    /\ toNamesPc' = "done"
    /\ UNCHANGED <<month, pipelineVars, orderVars>>

ToNamesNext == ToNamesCall

ToNamesSpec == ToNamesInit /\ [][ToNamesNext]_vars

-----------------------------------------------------------------------------
(* The standalone program (package main): one folder after the other, the   *)
(* order of its files is asked for, then the folder is published.           *)

Page(file, number) == [file |-> file, number |-> number]

\* json.Unmarshal([]byte(content), &orderedPages), orderedPages being nil.
IsPage(j) ==
    /\ j.t = "obj"
    /\ FieldOk(j, "file", "string")
    /\ FieldOk(j, "number", "uint8")
PageOf(j) ==
    IF j.t # "obj" THEN Page("", 0)
    ELSE Page(Stored(j, "file", "string", ""), Stored(j, "number", "uint8", 0))
UnmarshalPages(j) ==
    IF j.t # "arr" THEN [err |-> TRUE, val |-> <<>>]
    ELSE [err |-> ~(\A i \in 1..Len(j.v) : IsPage(j.v[i])),
          val |-> [i \in 1..Len(j.v) |-> PageOf(j.v[i])]]

\* Entries of the working directory: a plain file, and two folders with the
\* names of their files.
EntryNotes == [isDir |-> FALSE, files |-> <<>>]
EntryA1 == [isDir |-> TRUE, files |-> <<"p1.JPG", "p2.jpg">>]
EntryB2 == [isDir |-> TRUE, files |-> <<"q1.png">>]
FolderInputs == UNION {[1..n -> {EntryNotes, EntryA1, EntryB2}] : n \in 0..MaxFolders}

JPage(file, number) == JObj([file |-> JStr(file), number |-> JNum(number)])
\* What the assistant may answer on the order of the files.
RespOrderedA1 ==
    Response("[{\"file\":\"p1.JPG\",\"number\":1},{\"file\":\"p2.jpg\",\"number\":2}]",
             JArr(<<JPage("p1.JPG", 1), JPage("p2.jpg", 2)>>))
RespOrderedB2 ==
    Response("[{\"file\":\"q1.png\",\"number\":1}]", JArr(<<JPage("q1.png", 1)>>))
RespDescending ==
    Response("[{\"file\":\"p2.jpg\",\"number\":2},{\"file\":\"p1.JPG\",\"number\":1}]",
             JArr(<<JPage("p2.jpg", 2), JPage("p1.JPG", 1)>>))
RespFromZero ==
    Response("[{\"file\":\"p1.JPG\",\"number\":0},{\"file\":\"p2.jpg\",\"number\":1}]",
             JArr(<<JPage("p1.JPG", 0), JPage("p2.jpg", 1)>>))
RespInvented ==
    Response("[{\"file\":\"cover.jpg\",\"number\":1}]", JArr(<<JPage("cover.jpg", 1)>>))
RespEmptyArray == Response("[]", JArr(<<>>))
RespNotPages ==
    Response("{\"file\":\"p1.JPG\",\"number\":1}", JObj([file |-> JStr("p1.JPG"), number |-> JNum(1)]))
OrderResponses ==
    {RespEmpty, RespNotJson, RespNotPages, RespEmptyArray,
     RespOrderedA1, RespOrderedB2, RespDescending, RespFromZero, RespInvented}

OrderInit ==
    /\ PipelineInit /\ ToNamesIdle
    /\ orderPc = "loop"
    /\ folders \in FolderInputs
    /\ folderIdx = 1
    /\ orderedPages = <<>>
    /\ accepted = <<>>
    /\ failures = 0
    /\ exitCode = -1

\* A failure is reported and os.Exit(code) ends the program.
Exit(code) ==
    /\ orderPc' = "exited"
    /\ exitCode' = code
    /\ failures' = failures + 1
    /\ UNCHANGED <<folderIdx, orderedPages, accepted>>

\* The order of the files of one folder.
OrderFiles(input) ==
    LET decoded == UnmarshalPages(input.response.json) IN
    IF ~input.opened THEN Exit(10002)
    ELSE IF input.failed THEN Exit(10003)
    ELSE IF input.response.raw = "" THEN Exit(10004)
    ELSE IF decoded.err THEN Exit(10005)
    ELSE IF Len(decoded.val) = 0 THEN Exit(10006)
    ELSE /\ orderedPages' = decoded.val
         /\ accepted' = Append(accepted, [files |-> folders[folderIdx].files, pages |-> decoded.val])
         /\ orderPc' = "publish"
         /\ UNCHANGED <<folderIdx, failures, exitCode>>

\* main: the loop over the folders, up to the order of the files of one.
OrderFolder ==
    /\ orderPc = "loop"
    /\ folderIdx <= Len(folders)
    /\ IF ~folders[folderIdx].isDir
       THEN /\ folderIdx' = folderIdx + 1
            /\ UNCHANGED <<orderPc, orderedPages, accepted, failures, exitCode>>
       ELSE \E input \in CallInputs(OrderResponses) : OrderFiles(input)
    /\ UNCHANGED <<folders, pipelineVars, toNamesVars>>

\* main: the cover is analysed and the pages are copied in the order taken.
PublishFolder ==
    /\ orderPc = "publish"
    /\ \E outcome \in {"stat fails", "request fails", "no answer", "decode error",
                       "mkdir fails", "copy fails", "copied"} :
         CASE outcome = "stat fails"    -> Exit(10007)
           [] outcome = "request fails" -> Exit(10008)
           [] outcome = "no answer"     -> Exit(10009)
           [] outcome = "decode error"  -> \* main returns
                /\ orderPc' = "exited"
                /\ exitCode' = 0
                /\ UNCHANGED <<folderIdx, orderedPages, accepted, failures>>
           [] outcome = "mkdir fails"   -> Exit(10010)
           [] outcome = "copy fails"    -> Exit(10010)
           [] outcome = "copied" ->
                /\ folderIdx' = folderIdx + 1
                /\ orderPc' = "loop"
                /\ orderedPages' = <<>>
                /\ UNCHANGED <<accepted, failures, exitCode>>
    /\ UNCHANGED <<folders, pipelineVars, toNamesVars>>

\* main: every folder is done.
OrderReturns ==
    /\ orderPc = "loop"
    /\ folderIdx > Len(folders)
    /\ orderPc' = "exited"
    /\ exitCode' = 0
    /\ UNCHANGED <<folders, folderIdx, orderedPages, accepted, failures, pipelineVars, toNamesVars>>

OrderNext == OrderFolder \/ PublishFolder \/ OrderReturns

OrderSpec == OrderInit /\ [][OrderNext]_vars

-----------------------------------------------------------------------------
(* Properties *)

\* The send statements executed for the k-th page set received.
EmittedFor(k) == {i \in 1..Len(emitted) : emitted[i].set = k}

\* analyzePages has returned, or reached its send statement, for the page set in hand.
CoverStepDone == received # <<>> /\ aPc # "cover"

\* A JSON document of the shape {title, months, year, number}.
IsMetadataJson(j) ==
    /\ j.t = "obj"
    /\ "title" \in DOMAIN j.v => j.v.title.t = "str"
    /\ "number" \in DOMAIN j.v => (j.v.number.t = "num" /\ j.v.number.v \in 0..MaxUint8)
    /\ "year" \in DOMAIN j.v => (j.v.year.t = "num" /\ j.v.year.v \in 0..MaxUint16)
    /\ "months" \in DOMAIN j.v =>
         /\ j.v.months.t = "arr"
         /\ \A i \in 1..Len(j.v.months.v) :
              j.v.months.v[i].t = "num" /\ j.v.months.v[i].v \in 0..MaxUint8

\* The cover step of the page set in hand succeeds.
CoverSucceeds ==
    /\ Len(magazinePages.pages) > 0
    /\ coverInput.opened
    /\ ~coverInput.failed
    /\ coverInput.response.raw \notin {"", "Unknown"}
    /\ IsMetadataJson(coverInput.response.json)

\* The cover response of the page set in hand is empty or the sentinel.
CoverUnknown ==
    /\ Len(magazinePages.pages) > 0
    /\ coverInput.opened
    /\ ~coverInput.failed
    /\ coverInput.response.raw \in {"", "Unknown"}

RequestsOf(prompt) == SelectSeq(requests, LAMBDA r : r.prompt = prompt)
FilesOf(pages) == [i \in 1..Len(pages) |-> pages[i].file]
IsPrefix(s, t) == Len(s) <= Len(t) /\ s = SubSeq(t, 1, Len(s))

\* C1: a failure on one Publication never makes the Copier stop pulling from
\* its inbound channel: the Copier's worker returns only because the channel
\* was closed, never because a copy failed.
C1_CopierSurvivesFailure == cPc = "done" => cExit = "closed"

\* C2: the pipeline terminates: as long as the process has not panicked,
\* either main's wait on the barrier has returned or some stage can still take
\* a step; no stage is blocked for ever on a channel.
C2_PipelineTerminates == ~crashed => (mainPc = "exited" \/ ENABLED Next)

\* C3: every Magazine sent is received exactly once, in order, and the Copier
\* worker finishes only when the channel is closed and everything sent on it
\* has been received.
C3_CopierFinishesDrained ==
    /\ IsPrefix(delivered, [i \in 1..Len(emitted) |-> emitted[i].magazine])
    /\ cPc = "done" => (magClosed /\ Len(delivered) = Len(emitted))

\* C4: for every page set received at most one send statement is executed, and
\* once the cover step of the page set in hand is over, one was executed
\* exactly when the cover step succeeded: pages non-empty, cover file opened,
\* request answered, response neither empty nor Unknown, and metadata JSON.
C4_OnePublicationPerPageSet ==
    /\ \A k \in 1..Len(received) : Cardinality(EmittedFor(k)) <= 1
    /\ \A i \in 1..Len(emitted) : emitted[i].set \in 1..Len(received)
    /\ (received # <<>> /\ aPc = "cover") => EmittedFor(Len(received)) = {}
    /\ CoverStepDone => (CoverSucceeds <=> EmittedFor(Len(received)) # {})

\* C4 witness: a page set whose cover step succeeded, its Magazine emitted,
\* after an earlier page set for which nothing was emitted.
C4_Witness ==
    /\ Len(received) = 2
    /\ CoverStepDone /\ CoverSucceeds
    /\ EmittedFor(1) = {} /\ EmittedFor(2) # {}

\* C5: when the cover response is empty or Unknown, nothing is emitted for the
\* page set, an Error event is logged, and the Analyzer keeps running up to
\* its next receive: it does not die while it still has that page set in hand.
C5_AnalyzerSurvivesUnknownCover ==
    (CoverStepDone /\ CoverUnknown) =>
        /\ EmittedFor(Len(received)) = {}
        /\ \E i \in 1..Len(audit) : audit[i].severity = "Error"
        /\ aPc # "panicked"

\* C6: every Magazine emitted carries the page sequence and the folder of the
\* page set it was derived from, unchanged, and the Copier copies the pages of
\* the Magazine in hand in that order.
C6_PagesPreserved ==
    /\ \A i \in 1..Len(emitted) :
         /\ emitted[i].magazine.pages = received[emitted[i].set].pages
         /\ emitted[i].magazine.folder = received[emitted[i].set].folder
    /\ \A i \in 1..Len(delivered) : delivered[i] = emitted[i].magazine
    /\ delivered # <<>> => magazine = delivered[Len(delivered)]
    /\ IsPrefix(copied, magazine.pages)
    /\ cPc = "copy" => pagePos = Len(copied) + 1
    /\ \A i \in 1..Len(copied) :
         File(DstPath(magazine, magazine.pages[i]),
              [from |-> SrcPath(magazine, magazine.pages[i]), whole |-> TRUE]) \in files

\* C6 witness: the three pages of a Magazine copied, in order.
C6_Witness == Len(magazine.pages) = 3 /\ copied = magazine.pages /\ cPc = "recv"

\* C7: the Analyzer closes its outbound channel exactly once: whenever the
\* Scanner has closed the inbound channel, every page set sent on it has been
\* received and no stage can take a further step, the outbound channel has
\* been closed once.
C7_ClosesExactlyOnce ==
    (pagesClosed /\ pagesChannel = <<>> /\ ~ENABLED Next) => closes = 1

\* The order of the shutdown protocol alone (it holds): the channel is closed
\* at most once, only when the inbound channel is closed and drained and the
\* last page set is fully processed, and nothing is sent after the close.
ShutdownOrder ==
    /\ [](/\ closes <= 1
          /\ magClosed <=> closes = 1
          /\ magClosed => /\ pagesClosed /\ pagesChannel = <<>>
                          /\ aPc \in {"closing", "done"}
                          /\ pending = NoMagazine)
    /\ [][/\ magClosed => emitted' = emitted /\ received' = received /\ magClosed'
          /\ closes' # closes => aPc = "recv" /\ pagesClosed /\ pagesChannel = <<>>]_vars

\* C8: a page number of a table-of-content entry that matches no page of the
\* page set does not crash the Analyzer worker.
C8_UnresolvedPageDoesNotCrash == aPc # "panicked" /\ ~crashed

\* C9: the table-of-content derivation never gates the emission: whenever it
\* runs or has run for a page set whose cover step succeeded, the Magazine was
\* already sent and received; and as long as every candidate page answers
\* {"error":"no summary found","entries":[]}, each candidate page after the
\* cover is requested once, in order, no game request is made, and the loops
\* over the entries have nothing to visit.
AllNoSummary ==
    \A i \in 1..Len(requests) :
        requests[i].prompt = "table" => (~requests[i].failed /\ requests[i].response = RespNoSummary)
C9_TableOfContentNeverGates ==
    /\ (CoverStepDone /\ aPc # "send" /\ CoverSucceeds) =>
          /\ EmittedFor(Len(received)) # {}
          /\ Len(delivered) = Len(emitted)
          /\ pending = NoMagazine
    /\ (CoverStepDone /\ AllNoSummary) =>
          /\ RequestsOf("game") = <<>>
          /\ IsPrefix([i \in 1..Len(RequestsOf("table")) |-> RequestsOf("table")[i].file],
                      SubSeq(FilesOf(magazinePages.pages), 2, Len(magazinePages.pages)))
          /\ aPc = "toc" => pageIdx = Len(RequestsOf("table")) + 2
          /\ aPc = "entries" => PageNumbersOf(tableContent.entries) = <<>>

\* C9 witness: every candidate page of a three-page set answered "no summary
\* found", the derivation returned, and the Magazine was emitted.
C9_Witness ==
    /\ aPc = "recv" /\ Len(magazinePages.pages) = 3
    /\ CoverSucceeds /\ EmittedFor(Len(received)) # {}
    /\ Len(RequestsOf("table")) = 2 /\ AllNoSummary

\* C10 as claimed: the send of a Magazine completes without waiting for the
\* Copier, also while an earlier Magazine is being copied.
C10_SendNeverWaits == (aPc = "send" /\ cPc \in {"dirs", "copy"}) => ENABLED Handoff

\* C10 amended: the channel has no buffer: a Magazine sent and not yet
\* received keeps the Analyzer at its send statement; the Analyzer goes on to
\* the table of content only once the Copier has received the Magazine.
C10_SendIsRendezvous ==
    /\ Len(delivered) <= Len(emitted)
    /\ Len(emitted) <= Len(delivered) + 1
    /\ aPc = "send" <=> Len(emitted) = Len(delivered) + 1
    /\ aPc = "send" <=> pending # NoMagazine
    /\ aPc = "send" => pending = emitted[Len(emitted)].magazine

\* C10 witness: the Analyzer waits at its send statement while the Copier
\* copies the pages of an earlier Magazine.
C10_Witness == aPc = "send" /\ cPc = "copy" /\ Len(delivered) = 1 /\ Len(emitted) = 2


\* The workers registered on the barrier that have not signalled completion.
Outstanding ==
    (IF scanPc = "run" THEN 1 ELSE 0)
    + (IF aPc \in {"idle", "done", "panicked"} THEN 0 ELSE 1)
    + (IF cPc \in {"idle", "done"} THEN 0 ELSE 1)

\* C11: the barrier counts exactly the workers that were registered and have
\* not finished: a worker is registered before it starts, signals once on
\* every exit path (return, error return, panic), the count is never
\* negative, and main's wait returns only when all three workers finished.
C11_CompletionBarrier ==
    /\ waitGroup >= 0
    /\ waitGroup = Outstanding
    /\ mainPc = "exited" =>
         /\ scanPc = "done"
         /\ aPc \in {"done", "panicked"}
         /\ cPc = "done"

\* C11 witness: main's wait returned after the Copier left on its error path.
C11_Witness == mainPc = "exited" /\ cExit = "error" /\ aPc = "done"


\* The destination names the renaming rule gives the pages of the source
\* folders: three digits of the page number, then the extension in lower case.
ExpectedPageName(page) ==
    CASE page = MagazinePage(FileP1, 1) -> "001.jpg"
      [] page = MagazinePage(FileP2, 2) -> "002.jpg"
      [] page = MagazinePage(FileP3, 3) -> "003.jpg"
      [] page = MagazinePage(FileQ1, 1) -> "001.png"
      [] page = MagazinePage(FileR1, 1) -> "001.jpg"
      [] page = MagazinePage(FileR2, 2) -> "002.jpg"
      [] page = MagazinePage(FileR3, 3) -> "003.jpg"
      [] page = MagazinePage(FileR4, 4) -> "004.jpg"

\* The files of the source folder of the Magazine in hand found in its
\* destination folder.
FilesOfMagazine ==
    {f \in files : /\ SubSeq(f.path, 1, 2) = NewPublicationFolderNumber(magazine)
                   /\ f.content.from[1] = magazine.folder}

C13_DestinationLayout ==
    \A f \in files :
        \E i \in 1..Len(delivered) :
            LET m == delivered[i].metadata IN
            /\ f.path[1] = m.title
            /\ (m.title = "Tilt" /\ m.number = 42 /\ m.months = <<6>> /\ m.year = 1991)
                 => f.path[2] = "Numéro 42 | Juin 1991"


\* The French names of the months.
FrenchMonths == <<"Janvier", "Février", "Mars", "Avril", "Mai", "Juin",
                  "Juillet", "Août", "Septembre", "Octobre", "Novembre", "Décembre">>
InRange(n) == n >= 1 /\ n <= 12

\* C14: toNames returns the French names of the month numbers in 1..12, in
\* input order, and drops the others: [6] gives ["Juin"], [1,12] gives
\* ["Janvier","Décembre"], joined as "Janvier - Décembre", [0,13] gives the
\* empty list; the result is as long as the number of in-range inputs.
C14_MonthNames ==
    toNamesPc = "done" =>
        LET kept == SelectSeq(month, InRange) IN
        /\ Len(knownMonths) = Cardinality({i \in 1..Len(month) : InRange(month[i])})
        /\ knownMonths = [i \in 1..Len(kept) |-> FrenchMonths[kept[i]]]
        /\ month = <<6>> => knownMonths = <<"Juin">>
        /\ month = <<1, 12>> => /\ knownMonths = <<"Janvier", "Décembre">>
                                /\ publicationMonths = "Janvier - Décembre"
        /\ month = <<0, 13>> => knownMonths = <<>>

\* C14 witness: toNames returned for a list mixing in-range and out-of-range
\* month numbers.
C14_Witness ==
    /\ toNamesPc = "done"
    /\ month = <<1, 13, 12>>
    /\ knownMonths = <<"Janvier", "Décembre">>


\* The destination tree one complete processing of Magazine m leaves behind.
DirsOf(m) == {NewPublicationFolder(m), NewPublicationFolderNumber(m)}
TreeOf(m) ==
    {File(DstPath(m, m.pages[i]), [from |-> SrcPath(m, m.pages[i]), whole |-> TRUE]) :
        i \in 1..Len(m.pages)}

\* The Copier has processed, completely, the same Magazine each time.
SameMagazineProcessed ==
    /\ Len(delivered) >= 1
    /\ \A i \in 1..Len(delivered) : delivered[i] = delivered[1]
    /\ cPc \in {"recv", "done"} /\ cExit # "error"

\* C15: processing the same Magazine again ends in the destination tree of
\* one processing; when its two folders exist already, the folder step does
\* not fail and creates no directory; when a destination file exists already,
\* a successful copy replaces it and the number of files does not grow.
C15_CopierIdempotent ==
    /\ [](SameMagazineProcessed =>
            /\ dirs = DirsOf(delivered[1])
            /\ files = TreeOf(delivered[1]))
    /\ [][(cPc = "dirs" /\ DirsOf(magazine) \subseteq dirs) =>
            (cPc' # "done" /\ dirs' = dirs)]_vars
    /\ [][(cPc = "copy" /\ \E f \in files : f.path = DstPath(magazine, magazine.pages[pagePos])) =>
            /\ Cardinality(files') = Cardinality(files)
            /\ copied' # copied =>
                 File(DstPath(magazine, magazine.pages[pagePos]),
                      [from |-> SrcPath(magazine, magazine.pages[pagePos]), whole |-> TRUE])
                     \in files']_vars

\* C15 witness: the three pages of one Magazine were copied a second time.
C15_Witness ==
    /\ Len(delivered) = 2 /\ delivered[1] = delivered[2]
    /\ Len(delivered[1].pages) = 3
    /\ SameMagazineProcessed


\* C16: the pages of every ordering that was taken are strictly ascending by
\* number, start at 1, and name exactly the files of the folder, each once.
C16_OrderedPagesInvariant ==
    \A k \in 1..Len(accepted) :
        LET pages == accepted[k].pages
            listed == accepted[k].files IN
        /\ \A i \in 1..(Len(pages) - 1) : pages[i].number < pages[i + 1].number
        /\ pages[1].number = 1
        /\ {pages[i].file : i \in 1..Len(pages)} = {listed[i] : i \in 1..Len(listed)}
        /\ Len(pages) = Len(listed)

\* C17: an empty answer, an answer that is not JSON of the expected shape and
\* an empty array do not end the run: the folder is skipped and the next
\* folders are processed.
C17_MalformedOrderSkipsFolder == exitCode \notin {10004, 10005, 10006}


\* C18: once the context is cancelled the stages stop pulling: the Analyzer
\* receives at most the one page set it was about to take, not every page
\* set still queued.
C18_CancelStopsPulling == cancelled => Len(received) <= receivedAtCancel + 1


\* A table-of-content answer that decodes, reports no error and lists at
\* least one entry.
Usable(response) ==
    LET decoded == UnmarshalTableContent(ZeroTableContent, response.json) IN
    /\ response.raw # ""
    /\ ~decoded.err
    /\ decoded.val.error = ""
    /\ Len(decoded.val.entries) >= 1
UsableRequest(r) == r.prompt = "table" /\ ~r.failed /\ Usable(r.response)

\* C19: a game request is made for a page set only if one of its candidate
\* pages gave a usable table of content; the entries of a rejected answer are
\* not analysed when the candidate pages are exhausted.
C19_EntriesOnlyFromUsableIndex ==
    /\ RequestsOf("game") # <<>> => \E i \in 1..Len(requests) : UsableRequest(requests[i])
    /\ (aPc = "entries" /\ tableContent.entries # <<>>) =>
          \E i \in 1..Len(requests) :
              /\ UsableRequest(requests[i])
              /\ tableContent = UnmarshalTableContent(ZeroTableContent, requests[i].response.json).val

\* C20: the table-of-content requests of a page set go to the pages after the
\* cover, in the order of the page set, one request per page; the cover is
\* never asked; once a page gave a usable answer the loop over the entries
\* starts and no further page is asked.
C20_CandidateIteration ==
    LET table == RequestsOf("table")
        pages == magazinePages.pages IN
    /\ Len(table) <= Len(pages) - 1 \/ table = <<>>
    /\ \A i \in 1..Len(table) :
          /\ table[i].file = pages[i + 1].file
          /\ table[i].file # pages[1].file
          /\ table[i].set = Len(received)
    /\ \A i \in 1..(Len(table) - 1) : ~UsableRequest(table[i])
    /\ (table # <<>> /\ UsableRequest(table[Len(table)])) => aPc # "toc"
    /\ aPc = "toc" => pageIdx = Len(table) + 2


\* A table-of-content request whose answer json.Unmarshal rejected.
DecodeFailed(r) ==
    /\ r.prompt = "table" /\ ~r.failed /\ r.response.raw # ""
    /\ UnmarshalTableContent(ZeroTableContent, r.response.json).err
\* How many events of the audit of the page set in hand have this text.
Logged(severity, text) ==
    Cardinality({i \in 1..Len(audit) : audit[i] = Audit(severity, text)})

\* C21: in the loop over the candidate pages, an answer that does not decode
\* is logged as an error and the next candidate page, if any, is tried; a
\* candidate file that cannot be opened ends the derivation for this page set;
\* in both cases the Analyzer is still running while it has the page set in
\* hand, and the Magazine emitted for the page set is the one of its cover.
C21_DecodeFailureNonFatal ==
    LET table == RequestsOf("table")
        last == table[Len(table)]
        pages == magazinePages.pages IN
    /\ Logged("Error", "Unable to decode the table of content")
          >= Cardinality({i \in 1..Len(table) : DecodeFailed(table[i])})
    /\ (table # <<>> /\ DecodeFailed(last) /\ Len(table) < Len(pages) - 1) =>
          /\ aPc # "entries"
          /\ aPc = "toc" => pageIdx = Len(table) + 2
    /\ (table # <<>> /\ DecodeFailed(last)) => aPc # "panicked"
    /\ Logged("Error", "File does not exist or is not accessible") > 0 =>
          aPc \in {"recv", "closing", "done"}
    /\ ((table # <<>> /\ DecodeFailed(last))
          \/ Logged("Error", "File does not exist or is not accessible") > 0) =>
          /\ Cardinality(EmittedFor(Len(received))) <= 1
          /\ CoverSucceeds =>
                \E i \in EmittedFor(Len(received)) :
                    emitted[i].magazine =
                        Magazine(UnmarshalMetadata(coverInput.response.json).val, magazinePages)


\* A game request whose answer json.Unmarshal rejected, or took.
GameDecodeFailed(r) ==
    /\ r.prompt = "game" /\ ~r.failed /\ r.response.raw # ""
    /\ UnmarshalGame(r.response.json).err
GameDecoded(r) ==
    /\ r.prompt = "game" /\ ~r.failed /\ r.response.raw # ""
    /\ ~UnmarshalGame(r.response.json).err
\* The records of the game requests that decoded, in the order of the requests.
RecordsOf(reqs) ==
    LET taken == SelectSeq(reqs, GameDecoded) IN
    [i \in 1..Len(taken) |-> UnmarshalGame(taken[i].response.json).val]
\* The file of the page of the page set in hand that has this number.
FileNumbered(n) == magazinePages.pages[IndexFunc(magazinePages.pages, n) + 1].file

\* C22: in the loops over the entries, an answer that does not decode to a
\* Game is logged and skipped on its own: the loops go on to the next page
\* number with the records collected so far; while the loops run, one request
\* was made for every page number before the current one, in the order of the
\* entries, and the records are those of the answers that decoded.
C22_MalformedEntrySkipped ==
    /\ [](aPc = "entries" =>
            LET games == RequestsOf("game")
                numbers == PageNumbersOf(tableContent.entries) IN
            /\ numIdx = Len(games) + 1
            /\ \A i \in 1..Len(games) : games[i].file = FileNumbered(numbers[i])
            /\ gamesTested = RecordsOf(requests)
            /\ Logged("Error", "Unable to decode the table of content")
                  >= Cardinality({i \in 1..Len(games) : GameDecodeFailed(games[i])}))
    /\ [][(aPc = "entries" /\ requests' # requests
              /\ GameDecodeFailed(requests'[Len(requests')])) =>
            /\ aPc' = "entries"
            /\ numIdx' = numIdx + 1
            /\ gamesTested' = gamesTested
            /\ tableContent' = tableContent
            /\ audit' = audit \o <<Audit("Error", "Unable to decode the table of content"),
                                   Audit("Debug", "Received")>>]_vars

\* C22 witness: of the three page numbers of the two entries, the second one
\* got an answer that did not decode; the first and the third are recorded.
C22_Witness ==
    LET games == RequestsOf("game") IN
    /\ aPc = "entries" /\ numIdx = 4 /\ Len(games) = 3
    /\ GameDecoded(games[1]) /\ GameDecodeFailed(games[2]) /\ GameDecoded(games[3])
    /\ games[2].response = RespGameBadScore
    /\ Len(gamesTested) = 2


\* The paths of the destination files.
PathsOf(fs) == {f.path : f \in fs}
\* The files of the source folders that the Analyzer was given.
SourcePaths ==
    UNION {{SrcPath(received[k], received[k].pages[i]) : i \in 1..Len(received[k].pages)} :
             k \in 1..Len(received)}

\* C23: no rollback, and nothing beyond the failing page: when renameFiles
\* fails at a page, the destination files of the pages copied before it stay
\* as they are, only the destination of the failing page may have changed, the
\* loop over the pages ends there and the Copier writes nothing afterwards;
\* the Copier never removes a file, and what it writes is never a file of a
\* source folder.
C23_PartialCopyNoRollback ==
    /\ [][(cPc = "copy" /\ cExit' = "error") =>
            /\ \A i \in 1..Len(copied) :
                  File(DstPath(magazine, copied[i]),
                       [from |-> SrcPath(magazine, copied[i]), whole |-> TRUE]) \in files'
            /\ \A f \in files :
                  f.path # DstPath(magazine, magazine.pages[pagePos]) => f \in files'
            /\ PathsOf(files') \subseteq
                  PathsOf(files) \cup {DstPath(magazine, magazine.pages[pagePos])}
            /\ cPc' = "done" /\ copied' = copied /\ dirs' = dirs]_vars
    /\ [][cExit = "error" => (files' = files /\ dirs' = dirs /\ cPc' = "done")]_vars
    /\ [][PathsOf(files) \subseteq PathsOf(files') /\ dirs \subseteq dirs']_vars
    /\ [](\A f \in files :
            /\ f.path \notin SourcePaths
            /\ \A k \in 1..Len(received) : f.path[1] # received[k].folder)

\* C23 witness: the copy of the third page of a Magazine failed in io.Copy: the
\* first two destination files are whole, the third is not.
C23_Witness ==
    /\ cExit = "error" /\ Len(magazine.pages) = 3 /\ Len(copied) = 2
    /\ \E f \in files : f.path = DstPath(magazine, magazine.pages[3]) /\ ~f.content.whole
    /\ \A i \in 1..2 :
          File(DstPath(magazine, magazine.pages[i]),
               [from |-> SrcPath(magazine, magazine.pages[i]), whole |-> TRUE]) \in files


\* The Analyzer has a page set without pages in hand.
EmptySetInHand == received # <<>> /\ Len(magazinePages.pages) = 0

\* C24: for a page set without pages no request is made and no file is
\* opened, by the cover analysis or by the table of content; nothing is
\* emitted for it; every event logged for it is informational, "No pages to
\* analyze." once per derivation; and the Analyzer goes back to its receive.
C24_EmptyPageSetSkipped ==
    EmptySetInHand =>
        /\ requests = <<>>
        /\ coverInput = NoCall
        /\ EmittedFor(Len(received)) = {}
        /\ pending = NoMagazine
        /\ \A i \in 1..Len(audit) : audit[i].severity = "Information"
        /\ aPc \in {"cover", "tocBegin", "recv", "closing", "done"}
        /\ aPc = "cover" => audit = <<>>
        /\ aPc = "tocBegin" => audit = <<Audit("Information", "No pages to analyze.")>>
        /\ aPc \in {"recv", "closing", "done"} =>
              SubSeq(audit, 1, 2) = <<Audit("Information", "No pages to analyze."),
                                      Audit("Information", "No pages to analyze.")>>
        /\ (aPc = "recv" /\ pagesChannel # <<>>) => ENABLED AnalyzerReceive

\* C24 witness: both derivations returned for a page set without pages, and
\* the next page set is queued for the Analyzer's receive.
C24_Witness ==
    /\ EmptySetInHand /\ aPc = "recv" /\ Len(audit) = 2
    /\ pagesChannel # <<>> /\ Len(Head(pagesChannel).pages) > 0


\* What both derivations leave behind for the page set in hand once they ran:
\* the cover analysis made its request or logged that the cover cannot be
\* read; the table of content asked its first candidate page or logged that
\* it cannot be read; without pages each of them logged so.
DerivationsRan ==
    LET pages == magazinePages.pages IN
    /\ Len(pages) = 0 => Logged("Information", "No pages to analyze.") = 2
    /\ Len(pages) >= 1 =>
          /\ audit # <<>> /\ audit[1] = Audit("Information", "Analyzing cover file")
          /\ \/ RequestsOf("cover") # <<>>
             \/ Logged("Error", "Cover file does not exist or is not accessible") = 1
    /\ Len(pages) >= 2 =>
          \/ RequestsOf("table") # <<>>
          \/ Logged("Error", "File does not exist or is not accessible") = 1
\* The position of the Analyzer at which it makes a request with this prompt.
CallSite(prompt) ==
    CASE prompt = "cover" -> "cover"
      [] prompt = "table" -> "toc"
      [] prompt = "game"  -> "entries"

\* C25: the Analyzer takes the next page set only from its receive, when
\* both derivations of the page set in hand ran and returned and nothing is
\* left to send; a Magazine is emitted while no table-of-content or game
\* request of the page set was made, and the first such request comes after
\* the Magazine was received; the requests of a page set are made one per
\* step, each at the one position of the worker, the cover first, then the
\* candidate pages, then the pages of the entries.
C25_SequentialAnalyzer ==
    /\ [][received' # received =>
            /\ aPc = "recv" /\ aPc' = "cover"
            /\ Len(received') = Len(received) + 1
            /\ pending = NoMagazine /\ Len(delivered) = Len(emitted)
            /\ pageIdx = 0 /\ numIdx = 0 /\ tableContent = ZeroTableContent
            /\ received # <<>> => DerivationsRan]_vars
    /\ [][emitted' # emitted =>
            /\ aPc = "cover" /\ aPc' = "send"
            /\ RequestsOf("table") = <<>> /\ RequestsOf("game") = <<>>]_vars
    /\ [](RequestsOf("table") \o RequestsOf("game") # <<>> =>
            /\ aPc \notin {"cover", "send"}
            /\ pending = NoMagazine /\ Len(delivered) = Len(emitted)
            /\ CoverSucceeds => EmittedFor(Len(received)) # {})
    /\ [][(requests' # requests /\ received' = received) =>
            /\ Len(requests') = Len(requests) + 1
            /\ SubSeq(requests', 1, Len(requests)) = requests
            /\ aPc = CallSite(requests'[Len(requests')].prompt)]_vars
    /\ [](/\ Len(RequestsOf("cover")) <= 1
          /\ requests = RequestsOf("cover") \o RequestsOf("table") \o RequestsOf("game")
          /\ aPc \in {"idle", "started", "recv", "cover", "send", "tocBegin", "toc",
                       "entries", "closing", "done", "panicked"})

\* C25 witness: the second page set is in hand; its Magazine was emitted and
\* received, then a candidate page was asked, then a page of an entry.
C25_Witness ==
    /\ Len(received) = 2 /\ Len(received[1].pages) = 3
    /\ EmittedFor(2) # {} /\ Len(delivered) = Len(emitted)
    /\ Len(RequestsOf("cover")) = 1
    /\ RequestsOf("table") # <<>> /\ RequestsOf("game") # <<>>


\* The request failed, or was answered with nothing.
Unanswered(r) == r.failed \/ r.response.raw = ""

\* C26: nothing is tried again. For the page set in hand: at most one cover
\* request, and none after it failed; every candidate page is asked at most
\* once; a table-of-content or game request that failed or got no answer is
\* the last request of the page set, and the derivation has returned; a file
\* that cannot be read is logged once and its derivation has returned. For
\* the Magazine in hand: the pages are copied one after the other, each at
\* most once, and after a failed copy nothing is copied any more.
C26_NoRetry ==
    /\ [](LET table == RequestsOf("table") IN
          /\ Len(RequestsOf("cover")) <= 1
          /\ \A i, j \in 1..Len(table) : table[i].file = table[j].file => i = j
          /\ \A i \in 1..Len(requests) :
                (requests[i].prompt # "cover" /\ Unanswered(requests[i])) =>
                    /\ i = Len(requests)
                    /\ aPc \in {"recv", "closing", "done"}
          /\ (requests # <<>> /\ requests[1].prompt = "cover" /\ Unanswered(requests[1])) =>
                EmittedFor(Len(received)) = {}
          /\ Logged("Error", "Cover file does not exist or is not accessible") <= 1
          /\ Logged("Error", "Cover file does not exist or is not accessible") = 1 =>
                RequestsOf("cover") = <<>>
          /\ Logged("Error", "File does not exist or is not accessible") <= 1
          /\ Logged("Error", "An error occurred trying to analyze the file") <= 1
          /\ Len(copied) <= Len(magazine.pages)
          /\ \A i, j \in 1..Len(copied) : copied[i] = copied[j] => i = j)
    /\ [][(requests' # requests /\ received' = received) =>
            \A i \in 1..Len(requests) :
                Unanswered(requests[i]) =>
                    \/ requests'[Len(requests')].prompt # requests[i].prompt
                    \/ requests'[Len(requests')].file # requests[i].file]_vars
    /\ [][(cPc = "copy" /\ delivered' = delivered) =>
            \/ cPc' = "copy" /\ pagePos' = pagePos + 1 /\ Len(copied') = Len(copied) + 1
            \/ cPc' # "copy" /\ pagePos' = 0
            \/ cPc' = "copy" /\ pagePos' = pagePos /\ copied' = copied /\ files' = files]_vars
    /\ [][cExit = "error" => (copied' = copied /\ files' = files /\ delivered' = delivered)]_vars

\* C26 witness: the request for the last candidate page of a three-page set
\* failed after the cover and the first candidate page were answered; the
\* derivation returned, and a copy of the Copier failed as well.
C26_Witness ==
    /\ aPc = "recv" /\ Len(requests) = 3
    /\ requests[3].prompt = "table" /\ requests[3].failed
    /\ ~Unanswered(requests[1]) /\ ~Unanswered(requests[2])
    /\ cExit = "error" /\ Len(copied) = 1


\* The Magazine carries the folder and the pages of the page set.
DerivedFrom(m, set) == m.folder = set.folder /\ m.pages = set.pages
\* The Magazines are derived, one after the other, from page sets met in this
\* order in the sequence of page sets.
RECURSIVE InOrder(_, _)
InOrder(magazines, sets) ==
    IF magazines = <<>> THEN TRUE
    ELSE IF sets = <<>> THEN FALSE
    ELSE IF DerivedFrom(Head(magazines), Head(sets))
    THEN InOrder(Tail(magazines), Tail(sets))
    ELSE InOrder(magazines, Tail(sets))

\* C27: the Magazines the Copier received are, in their order, derived from
\* page sets in the order in which the Analyzer received them: they are the
\* first Magazines emitted, and the Magazines were emitted for page sets of
\* increasing position.
C27_OrderAcrossPublications ==
    /\ InOrder(delivered, received)
    /\ Len(delivered) <= Len(emitted)
    /\ \A i \in 1..Len(delivered) :
          /\ delivered[i] = emitted[i].magazine
          /\ DerivedFrom(delivered[i], received[emitted[i].set])
    /\ \A i, j \in 1..Len(emitted) : i < j => emitted[i].set < emitted[j].set

\* C27 witness: the Copier received the Magazines of two different source
\* folders.
C27_Witness ==
    /\ Len(delivered) = 2 /\ Len(received) = 2
    /\ delivered[1].folder # delivered[2].folder
    /\ DerivedFrom(delivered[1], received[1]) /\ DerivedFrom(delivered[2], received[2])


\* C28: what was handed over is not written to afterwards. The page set in
\* the hands of the Analyzer is the one it received and the Magazine in the
\* hands of the Copier is the one it received, with the pages of the page set
\* it was built from; only a receive replaces either of them, so that neither
\* the table of content nor the copy loop changes the pages both stages read;
\* and no page set or Magazine that was queued, received or sent changes
\* later.
C28_NoSharedMutation ==
    /\ [](/\ received # <<>> => magazinePages = received[Len(received)]
          /\ delivered # <<>> => magazine = delivered[Len(delivered)]
          /\ aPc = "send" => /\ pending = emitted[Len(emitted)].magazine
                             /\ pending.pages = magazinePages.pages
          /\ \A i \in 1..Len(emitted) :
                emitted[i].magazine.pages = received[emitted[i].set].pages
          /\ \A i \in 1..Len(delivered) :
                delivered[i].pages = received[emitted[i].set].pages)
    /\ [][/\ IsPrefix(received, received')
          /\ IsPrefix(emitted, emitted')
          /\ IsPrefix(delivered, delivered')]_vars
    /\ [][\/ IsPrefix(pagesChannel, pagesChannel')
          \/ pagesChannel # <<>> /\ pagesChannel' = Tail(pagesChannel)
                /\ received' = Append(received, Head(pagesChannel))]_vars
    /\ [][magazinePages' # magazinePages => (aPc = "recv" /\ received' # received)]_vars
    /\ [][magazine' # magazine => (cPc = "recv" /\ delivered' # delivered)]_vars
    /\ [][(aPc \in {"tocBegin", "toc", "entries"}) =>
            (magazinePages' = magazinePages /\ emitted' = emitted /\ pending' = pending)]_vars
    /\ [][(cPc \in {"dirs", "copy"}) => magazine' = magazine]_vars

\* C28 witness: the Copier copies the second page of a Magazine while the
\* Analyzer, in the loops over the entries, reads the same pages.
C28_Witness ==
    /\ aPc = "entries" /\ RequestsOf("game") # <<>>
    /\ cPc = "copy" /\ pagePos = 2
    /\ magazine.pages = magazinePages.pages /\ magazine.folder = magazinePages.folder

=============================================================================
